---- MODULE Spec2Model ----
(***************************************************************************)
(* A model of lsst.validate.drp.validate (loadAndMatchData, analyzeData,   *)
(* run) and of lsst.verify.tasks.ppdbMetricTask (ConfigPpdbLoader,         *)
(* PpdbMetricTask.adaptArgsAndRun).                                         *)
(*                                                                         *)
(* Numbers.  A floating point value is a record [fin, num, den]: NaN when  *)
(* fin is FALSE, otherwise the rational num/den counted in thousandths of  *)
(* the quantity's unit (19.06 mag is num = 19060, den = 1).  Means and     *)
(* medians are exact; a standard deviation is carried to the thousandth    *)
(* below (the square root is irrational).                                  *)
(***************************************************************************)
EXTENDS Integers, Sequences, FiniteSets, TLC

\* ------------------------------------------------------------------ bounds

\* The longest list of visit identifiers handed to run.
MaxVisits == 2

\* The sky positions (matched objects are at most this many).
Cells == {1, 2}

\* A run's catalogues hold at most this many detections in total.
MaxDetections == 2 * Cardinality(Cells)

\* ------------------------------------------------------------- float values

NaN == [fin |-> FALSE, num |-> 0, den |-> 1]

F(x) == [fin |-> TRUE, num |-> x, den |-> 1]

Frac(n, d) == [fin |-> TRUE, num |-> n, den |-> d]

\* a <= b, a < b and a > b on floats: every comparison with NaN is false.
FLeq(a, b) == a.fin /\ b.fin /\ a.num * b.den <= b.num * a.den

FLt(a, b) == a.fin /\ b.fin /\ a.num * b.den < b.num * a.den

FGt(a, b) == FLt(b, a)

\* k * a for an integer k.
FTimes(k, a) == IF a.fin THEN Frac(k * a.num, a.den) ELSE NaN

\* 1000 * arr, elementwise (numpy broadcasting).
ArrTimes(k, arr) == [j \in 1..Len(arr) |-> FTimes(k, arr[j])]

RECURSIVE SumNum(_)
SumNum(xs) == IF xs = << >> THEN 0 ELSE Head(xs).num + SumNum(Tail(xs))

AllFinite(xs) == \A j \in 1..Len(xs) : xs[j].fin

\* The largest r in lo..hi with r*r <= m (bisection).
RECURSIVE IsqrtIter(_, _, _)
IsqrtIter(lo, hi, m) ==
    IF lo >= hi THEN lo
    ELSE LET mid == (lo + hi + 1) \div 2
         IN  IF mid * mid <= m THEN IsqrtIter(mid, hi, m)
             ELSE IsqrtIter(lo, mid - 1, m)

Isqrt(m) == IsqrtIter(0, 46340, m)

\* np.mean of a sequence of detection values (den = 1): NaN when empty or
\* when a member is NaN.
NpMean(xs) ==
    IF xs = << >> \/ ~AllFinite(xs) THEN NaN
    ELSE Frac(SumNum(xs), Len(xs))

\* np.max: NaN propagates.
NpMax(xs) ==
    IF xs = << >> \/ ~AllFinite(xs) THEN NaN
    ELSE F(CHOOSE m \in {xs[j].num : j \in 1..Len(xs)} :
               \A j \in 1..Len(xs) : xs[j].num <= m)

RECURSIVE SumSqDev(_, _, _)
SumSqDev(xs, n, s) ==
    IF xs = << >> THEN 0
    ELSE (n * Head(xs).num - s) * (n * Head(xs).num - s)
         + SumSqDev(Tail(xs), n, s)

\* np.std (population): sqrt(mean((x - mean(x))^2)), to the thousandth below.
\* With n members and sum s the squared deviations sum to q / n^2 for
\* q = sum (n x - s)^2, so the result is sqrt(q n) / n^2.
NpStd(xs) ==
    IF xs = << >> \/ ~AllFinite(xs) THEN NaN
    ELSE LET n == Len(xs)
             s == SumNum(xs)
         IN  F(Isqrt(SumSqDev(xs, n, s) * n) \div (n * n))

\* The values of a sequence of floats in ascending order (insertion sort).
RECURSIVE Insert(_, _)
Insert(x, sorted) ==
    IF sorted = << >> THEN <<x>>
    ELSE IF FLeq(x, Head(sorted)) THEN <<x>> \o sorted
         ELSE <<Head(sorted)>> \o Insert(x, Tail(sorted))

RECURSIVE SortAsc(_)
SortAsc(xs) == IF xs = << >> THEN << >> ELSE Insert(Head(xs), SortAsc(Tail(xs)))

\* np.median: the middle value, or the mean of the two middle values; NaN for
\* an empty array (numpy warns and returns nan) or when a value is NaN.
NpMedian(xs) ==
    IF xs = << >> \/ ~AllFinite(xs) THEN NaN
    ELSE LET s == SortAsc(xs)
             n == Len(xs)
             h == n \div 2
         IN  IF n % 2 = 1 THEN s[h + 1]
             ELSE Frac(s[h].num * s[h + 1].den + s[h + 1].num * s[h].den,
                       2 * s[h].den * s[h + 1].den)

\* ------------------------------------------------- the data repository

\* A source as the butler's 'src' catalogue holds it, by kind: 1 a clean star,
\* 2 a clean star 0.06 mag fainter and 0.04 arcsec off, 3 an extended source
\* with a flag that does not disqualify, 4 a negative flux, 5..8 a star with
\* one disqualifying pixel flag.
KindIds == 1..8

SrcKind(k) ==
    LET star == [flux |-> 2512, fluxSigma |-> 23, flags |-> {},
                 extendedness |-> F(0), off |-> 0]
    IN  CASE k = 1 -> star
          [] k = 2 -> [star EXCEPT !.flux = 2377, !.fluxSigma = 44, !.off = 40]
          [] k = 3 -> [star EXCEPT !.extendedness = F(1000),
                                   !.flags = {"interpolated"}]
          [] k = 4 -> [star EXCEPT !.flux = -7]
          [] k = 5 -> [star EXCEPT !.flags = {"saturated"}]
          [] k = 6 -> [star EXCEPT !.flags = {"cr"}]
          [] k = 7 -> [star EXCEPT !.flags = {"bad"}]
          [] k = 8 -> [star EXCEPT !.flags = {"edge"}]

\* Positions are in arcsec; the sky positions are 5 arcsec apart.
CoordOf(c, k) == 5000 * c + SrcKind(k).off

RECURSIVE SrcRows(_, _, _)
SrcRows(f, cs, vId) ==
    IF cs = {} THEN << >>
    ELSE LET c == CHOOSE x \in cs : \A y \in cs : x <= y
             rest == SrcRows(f, cs \ {c}, vId)
         IN  IF f[c] = 0 THEN rest
             ELSE <<[visit |-> vId, coord |-> CoordOf(c, f[c]),
                     flux |-> SrcKind(f[c]).flux,
                     fluxSigma |-> SrcKind(f[c]).fluxSigma,
                     flags |-> SrcKind(f[c]).flags,
                     extendedness |-> SrcKind(f[c]).extendedness]>> \o rest

\* The kinds of source met at a sky position: every kind at the first, the
\* kinds without a disqualifying flag at the others.
KindsAt(c) == IF c = 1 THEN KindIds ELSE 1..4

\* What butler.get('src', vId) may return: at each sky position no source or
\* a source of one kind, in position order.
SrcCatalogs(vId) ==
    {SrcRows(f, Cells, vId) :
        f \in {h \in [Cells -> {0} \cup KindIds] :
                  \A c \in Cells : h[c] \in {0} \cup KindsAt(c)}}

\* calib.getMagnitude(flux, fluxSigma) with setThrowOnNegativeFlux(False):
\* NaN for a flux that is not positive, else -2.5 log10(flux / flux0) (by
\* table: flux0 is the flux of magnitude 0) and 2.5/ln(10) * sigma / flux.
GetMagnitude(flux, fluxSigma) ==
    IF flux <= 0 THEN <<NaN, NaN>>
    ELSE <<F(CASE flux = 2512 -> 19000 [] flux = 2377 -> 19060),
           F((1086 * fluxSigma) \div flux)>>

\* tmpCat: oldSrc mapped to the new schema, with the two magnitude columns.
TmpCat(oldSrc) ==
    [j \in 1..Len(oldSrc) |->
        [visit |-> oldSrc[j].visit, coord |-> oldSrc[j].coord,
         flux |-> oldSrc[j].flux, fluxSigma |-> oldSrc[j].fluxSigma,
         flags |-> oldSrc[j].flags, extendedness |-> oldSrc[j].extendedness,
         psfMag |-> GetMagnitude(oldSrc[j].flux, oldSrc[j].fluxSigma)[1],
         psfMagErr |-> GetMagnitude(oldSrc[j].flux, oldSrc[j].fluxSigma)[2]]]

\* ------------------------------------------------------- the matcher

\* matchRadius: 1 arcsec.
MatchRadius == 1000

Abs(x) == IF x < 0 THEN -x ELSE x

NewMultiMatch == [reference |-> << >>, result |-> << >>, nextObject |-> 1]

\* One record of a catalogue being added: it joins the object of the closest
\* reference (of those the matcher held before this catalogue) within the
\* radius, or becomes a new object and a new reference.
AddRecord(refs, acc, rec) ==
    LET near == {j \in 1..Len(refs) : Abs(refs[j].coord - rec.coord) <= MatchRadius}
    IN  IF near # {}
        THEN LET j == CHOOSE a \in near : \A b \in near :
                          \/ Abs(refs[a].coord - rec.coord) < Abs(refs[b].coord - rec.coord)
                          \/ /\ Abs(refs[a].coord - rec.coord) = Abs(refs[b].coord - rec.coord)
                             /\ a <= b
             IN  [acc EXCEPT !.result = Append(@, [object |-> refs[j].object, rec |-> rec])]
        ELSE [reference |-> Append(acc.reference,
                                   [object |-> acc.nextObject, coord |-> rec.coord]),
              result |-> Append(acc.result, [object |-> acc.nextObject, rec |-> rec]),
              nextObject |-> acc.nextObject + 1]

RECURSIVE AddRecords(_, _, _)
AddRecords(refs, acc, cat) ==
    IF cat = << >> THEN acc
    ELSE AddRecords(refs, AddRecord(refs, acc, Head(cat)), Tail(cat))

\* mmatch.add(catalog=tmpCat, dataId=vId)
MultiMatchAdd(mm, cat) == AddRecords(mm.reference, mm, cat)

\* mmatch.finish(): the rows, each with its object identifier.
MultiMatchFinish(mm) == mm.result

\* GroupView.build: object identifier -> its rows, in catalogue order.
GroupViewBuild(matchCat) ==
    [g \in {matchCat[j].object : j \in 1..Len(matchCat)} |->
        LET Mine(row) == row.object = g
            rows == SelectSeq(matchCat, Mine)
        IN  [j \in 1..Len(rows) |-> rows[j].rec]]

\* view.where(predicate): the groups the predicate is true of, whole.  keep
\* is the predicate's value on each group of the view.
Where(view, keep) == [g \in {h \in DOMAIN view : keep[h]} |-> view[g]]

RECURSIVE AscendingIds(_)
AscendingIds(ids) ==
    IF ids = {} THEN << >>
    ELSE LET m == CHOOSE x \in ids : \A y \in ids : x <= y
         IN  <<m>> \o AscendingIds(ids \ {m})

\* view.aggregate(function): one value per group, in identifier order.  val
\* is the function's value on each group of the view.
Aggregate(view, val) ==
    LET ids == AscendingIds(DOMAIN view)
    IN  [j \in 1..Len(ids) |-> val[ids[j]]]

\* cat.get(key): one column of a group.
Column(cat, key) == [j \in 1..Len(cat) |-> cat[j][key]]

\* ------------------------------------------------------- analyzeData

\* The pixel flags that disqualify a group.
FlagNames == {"saturated", "cr", "bad", "edge"}

nMatchesRequired == 2

\* 1.0
safeMaxExtended == 1000

\* goodFilter with the count test off by one.
goodFilterOffByOne(cat) ==
    IF Len(cat) <= nMatchesRequired THEN FALSE
    ELSE IF \E flag \in FlagNames : \E j \in 1..Len(cat) : flag \in cat[j].flags
         THEN FALSE
         ELSE IF ~AllFinite(Column(cat, "psfMag")) THEN FALSE
              ELSE TRUE

goodFilter(cat) ==
    IF Len(cat) < nMatchesRequired THEN FALSE
    ELSE IF \E flag \in FlagNames : \E j \in 1..Len(cat) : flag \in cat[j].flags
         THEN FALSE
         ELSE IF ~AllFinite(Column(cat, "psfMag")) THEN FALSE
              ELSE TRUE

\* safeFilter with a strict magnitude test.
safeFilterStrictMag(cat, safeMaxMag) ==
    LET psfMag == NpMean(Column(cat, "psfMag"))
        extended == NpMax(Column(cat, "extendedness"))
    IN  FLt(psfMag, F(safeMaxMag)) /\ FLt(extended, F(safeMaxExtended))

safeFilter(cat, safeMaxMag) ==
    LET psfMag == NpMean(Column(cat, "psfMag"))
        extended == NpMax(Column(cat, "extendedness"))
    IN  FLeq(psfMag, F(safeMaxMag)) /\ FLt(extended, F(safeMaxExtended))

\* A filter applied to the records of each group instead of to the groups:
\* the flagged and non-finite records are dropped, the groups kept.
GoodMatchesPerRecord(all) ==
    [g \in {h \in DOMAIN all : Len(all[h]) >= nMatchesRequired} |->
        LET Clean(rec) == rec.flags \cap FlagNames = {} /\ rec.psfMag.fin
        IN  SelectSeq(all[g], Clean)]

\* goodMatches = allMatches.where(goodFilter)
GoodMatches(all) == Where(all, [g \in DOMAIN all |-> goodFilter(all[g])])

\* The safe pass without its extendedness test.
SafeMatchesMagOnly(good, good_mag_limit) ==
    Where(good, [g \in DOMAIN good |->
                    FLeq(NpMean(Column(good[g], "psfMag")), F(good_mag_limit))])

\* safeMatches = goodMatches.where(safeFilter)
SafeMatches(good, good_mag_limit) ==
    Where(good, [g \in DOMAIN good |-> safeFilter(good[g], good_mag_limit)])

\* The scatter of a group's positions, in milliarcsec.
positionRms(cat) ==
    LET coords == [j \in 1..Len(cat) |-> F(cat[j].coord)]
    IN  FTimes(1000, NpStd(coords))

\* The aggregates of a view.
InfoStruct(good) ==
    LET goodPsfMag ==
            Aggregate(good, [g \in DOMAIN good |-> NpMean(Column(good[g], "psfMag"))])
        goodPsfMagRms ==
            Aggregate(good, [g \in DOMAIN good |-> NpStd(Column(good[g], "psfMag"))])
        goodPsfMagErr ==
            Aggregate(good, [g \in DOMAIN good |-> NpMedian(Column(good[g], "psfMagErr"))])
        dist == Aggregate(good, [g \in DOMAIN good |-> positionRms(good[g])])
    IN  [mag |-> goodPsfMag,
         magerr |-> goodPsfMagErr,
         magrms |-> goodPsfMagRms,
         dist |-> dist,
         match |-> Len(dist)]

\* The aggregates taken over the safe groups.
StructOfSafe(good, safe) == InfoStruct(safe)

\* analyzeData's info_struct: the four aggregates are goodMatches's.
StructOf(good, safe) == InfoStruct(good)

NoStruct == [mag |-> << >>, magerr |-> << >>, magrms |-> << >>,
             dist |-> << >>, match |-> 0]

\* ------------------------------------------------------ threshold checks

\* arr[bright]: the entries of arr whose star has mag at or below the limit.
RECURSIVE BrightOf(_, _, _)
BrightOf(mag, arr, limit) ==
    IF mag = << >> THEN << >>
    ELSE (IF FLeq(Head(mag), limit) THEN <<Head(arr)>> ELSE << >>)
         \o BrightOf(Tail(mag), Tail(arr), limit)

\* A check's report: TRUE for success, FALSE for failure.
ThresholdCheck(mag, scatter, match, good_mag_limit, medianRef, matchRef) ==
    LET median == NpMedian(BrightOf(mag, scatter, F(good_mag_limit)))
    IN  IF FGt(median, F(medianRef)) THEN FALSE
        ELSE IF match < matchRef THEN FALSE
             ELSE TRUE

checkAstrometry(mag, mmagrms, dist, match, good_mag_limit, medianRef, matchRef) ==
    ThresholdCheck(mag, dist, match, good_mag_limit, medianRef, matchRef)

checkPhotometry(mag, mmagrms, dist, match, good_mag_limit, medianRef, matchRef) ==
    ThresholdCheck(mag, mmagrms, match, good_mag_limit, medianRef, matchRef)

\* ------------------------------------------- ppdbMetricTask: ConfigPpdbLoader

\* The most fields a config of the model has.
MaxFields == 2

None == [kind |-> "None"]

\* A PpdbConfig (db names the database it configures) and the Ppdb made of it.
PpdbConfig(k) == [kind |-> "PpdbConfig", db |-> k]

Ppdb(config) == [kind |-> "Ppdb", db |-> config.db]

\* A Config with the given field values, in the order config.values() yields.
Config(fields) == [kind |-> "Config", fields |-> fields]

\* Field values: a ConfigurableInstance (isPpdb: ConfigClass == PpdbConfig), a
\* ConfigChoiceField's instance dict (multi: it has names), a ConfigDictField's
\* dict, any other value; a nested config is its own value.
ConfigurableInstance(isPpdb, value) ==
    [kind |-> "ConfigurableInstance", isPpdb |-> isPpdb, value |-> value]

ConfigChoice(multi, active) ==
    [kind |-> "ConfigChoice", multi |-> multi, active |-> active]

ConfigDict(values) == [kind |-> "ConfigDict", values |-> values]

OtherField == [kind |-> "Other"]

RECURSIVE GetPpdb(_)
RECURSIVE GetPpdbFromConfigurableField(_)
RECURSIVE GetPpdbFromConfigIterable(_)
RECURSIVE GetPpdbFromFields(_)

\* The body of the loop of _getPpdb for one field: the result, None if the
\* field holds no PpdbConfig.
GetPpdbFromField(field) ==
    CASE field.kind = "ConfigurableInstance" -> GetPpdbFromConfigurableField(field)
      [] field.kind = "ConfigChoice" ->
            IF field.multi THEN GetPpdbFromConfigIterable(field.active)
            ELSE GetPpdb(field.active)
      [] field.kind = "ConfigDict" -> GetPpdbFromConfigIterable(field.values)
      [] field.kind \in {"Config", "PpdbConfig"} -> GetPpdb(field)
      [] OTHER -> None

\* The loop of _getPpdb: the first result that is not None ends it.
GetPpdbFromFields(fields) ==
    IF fields = << >> THEN None
    ELSE LET result == GetPpdbFromField(Head(fields))
         IN  IF result # None THEN result
             ELSE GetPpdbFromFields(Tail(fields))

GetPpdb(config) ==
    IF config = None THEN None
    ELSE IF config.kind = "PpdbConfig" THEN Ppdb(config)
         ELSE GetPpdbFromFields(config.fields)

GetPpdbFromConfigurableField(configurable) ==
    IF configurable = None THEN None
    ELSE IF configurable.isPpdb THEN Ppdb(configurable.value)
         ELSE GetPpdb(configurable.value)

GetPpdbFromConfigIterable(configDict) ==
    IF configDict = << >> THEN None
    ELSE LET result == GetPpdb(Head(configDict))
         IN  IF result # None THEN result
             ELSE GetPpdbFromConfigIterable(Tail(configDict))

\* ConfigPpdbLoader.run
DbLoaderRun(config) == [ppdb |-> GetPpdb(config)]

\* The sequences over S of length at most n.
SeqsUpTo(S, n) == UNION {[1..k -> S] : k \in 0..n}

\* The configs met as field values: two PpdbConfigs, an empty Config, a Config
\* that holds a PpdbConfig behind another field.
SubConfigs ==
    {PpdbConfig(1), PpdbConfig(2), Config(<< >>),
     Config(<<OtherField, PpdbConfig(2)>>)}

FieldValues ==
    {OtherField}
    \cup {ConfigurableInstance(TRUE, PpdbConfig(k)) : k \in {1, 2}}
    \cup {ConfigurableInstance(FALSE, c) : c \in SubConfigs}
    \cup {ConfigChoice(FALSE, c) : c \in SubConfigs \cup {None}}
    \cup {ConfigChoice(TRUE, cs) : cs \in SeqsUpTo({PpdbConfig(1), Config(<< >>)}, 2)}
    \cup {ConfigDict(cs) : cs \in SeqsUpTo({PpdbConfig(1), Config(<< >>)}, 2)}
    \cup SubConfigs

\* The datasets a caller may hand over as dbInfo.
Configs ==
    {None} \cup SubConfigs
    \cup {Config(fields) : fields \in SeqsUpTo(FieldValues, MaxFields)}

\* The run of ConfigPpdbLoader._getPpdb, step by step.
VARIABLES
    lpc,      \* "idle", "running", "returning" (a result goes up), "done"
    root,     \* the config _getPpdb was called on
    stack,    \* the loops under way, the innermost last
    pending,  \* the call about to be entered
    ret,      \* the value last returned
    visited   \* the fields config.values() has yielded, in order

loaderVars == <<lpc, root, stack, pending, ret, visited>>

NoCall == [fn |-> "none", arg |-> None]

Call(fn, arg) == [fn |-> fn, arg |-> arg]

\* A loop over the field values of a config, or over the configs of an
\* iterable: what is left to iterate.
Loop(over, rest) == [over |-> over, rest |-> rest]

\* The loader is not in use.
LoaderIdle ==
    /\ lpc = "idle"
    /\ root = None
    /\ stack = << >>
    /\ pending = NoCall
    /\ ret = None
    /\ visited = << >>

\* ------------------------------------------- ppdbMetricTask: PpdbMetricTask

VARIABLES
    ppc,          \* where PpdbMetricTask.run / adaptArgsAndRun is
    inputDbInfo,  \* inputData["dbInfo"]: a dataset or a one-element list
    dataId,       \* outputDataId["measurement"]
    db,           \* the handle the loader returned
    measurement,
    result,       \* the Struct returned
    calls         \* the calls made, in order

ppdbVars == <<ppc, inputDbInfo, dataId, db, measurement, result, calls>>

\* The task is not in use (the model is of validate.run).
PpdbIdle ==
    /\ ppc = "idle"
    /\ inputDbInfo = None
    /\ dataId = "{}"
    /\ db = None
    /\ measurement = None
    /\ result = None
    /\ calls = << >>

\* What makeMeasurement (abstract) may return.
Measurements == {None, [kind |-> "Measurement", metric |-> "m"]}

\* dbInfo = dbInfo[0], a TypeError passed over: the element of a list, the
\* dataset itself otherwise.
FirstOrSelf(dbInfo) ==
    IF dbInfo.kind = "list" THEN dbInfo.items[1] ELSE dbInfo

\* ------------------------------------------------------------- the run

VARIABLES
    pc,            \* where run is
    visitDataIds,  \* run's list of visit identifiers
    params,        \* good_mag_limit, the two scatter references, matchRef
    vIdx,          \* the loop of loadAndMatchData: the next identifier
    srcVis,        \* every detection loaded so far
    mmatch,        \* the matcher
    matchCat,      \* mmatch.finish()
    allMatches, goodMatches, safeMatches,
    struct,        \* analyzeData's info_struct
    report,        \* what each threshold check reported
    log            \* the steps taken, in order

runVars == <<pc, visitDataIds, params, vIdx, srcVis, mmatch, matchCat,
             allMatches, goodMatches, safeMatches, struct, report, log>>

vars == <<runVars, ppdbVars, loaderVars>>

\* The identifier lists: visits 10, 20, ... (an identifier is not its place
\* in the list), of every length up to MaxVisits.
VisitLists == {[j \in 1..n |-> 10 * j] : n \in 0..MaxVisits}

\* run's arguments (thousandths): the limit, the astrometric and photometric
\* references and the match count wanted.
ParamSets ==
    {[good_mag_limit |-> 19500, medianAstromscatterRef |-> 25000,
      medianPhotoscatterRef |-> 25000, matchRef |-> 2],
     [good_mag_limit |-> 19030, medianAstromscatterRef |-> 10000,
      medianPhotoscatterRef |-> 25000, matchRef |-> 1],
     [good_mag_limit |-> 19500, medianAstromscatterRef |-> 25000,
      medianPhotoscatterRef |-> 10000, matchRef |-> 0]}

NoReport == [astrometry |-> "none", photometry |-> "none"]

Init ==
    /\ PpdbIdle
    /\ LoaderIdle
    /\ pc = "start"
    /\ visitDataIds \in VisitLists
    /\ params \in ParamSets
    /\ vIdx = 1
    /\ srcVis = << >>
    /\ mmatch = NewMultiMatch
    /\ matchCat = << >>
    /\ allMatches = << >>
    /\ goodMatches = << >>
    /\ safeMatches = << >>
    /\ struct = NoStruct
    /\ report = NoReport
    /\ log = << >>

Step(name, id) == <<[step |-> name, id |-> id]>>

\* run up to the loop of loadAndMatchData: the butler, ccdKeyName from the
\* first identifier (an empty list has none), the schema, the matcher.
Setup ==
    /\ pc = "start"
    /\ pc' = IF Len(visitDataIds) = 0 THEN "failed" ELSE "load"
    /\ log' = IF Len(visitDataIds) = 0 THEN log \o Step("IndexError", 0)
              ELSE log \o Step("MultiMatch", 0)
    /\ UNCHANGED <<visitDataIds, params, vIdx, srcVis, mmatch, matchCat,
                   allMatches, goodMatches, safeMatches, struct, report>>
    /\ UNCHANGED ppdbVars
    /\ UNCHANGED loaderVars

\* butler.get("calexp_md", vId) raises.
FetchCalibFails ==
    /\ pc = "load" /\ vIdx <= Len(visitDataIds)
    /\ pc' = "failed"
    /\ log' = log \o Step("calexp_md raises", visitDataIds[vIdx])
    /\ UNCHANGED <<visitDataIds, params, vIdx, srcVis, mmatch, matchCat,
                   allMatches, goodMatches, safeMatches, struct, report>>
    /\ UNCHANGED ppdbVars
    /\ UNCHANGED loaderVars

\* A failed fetch caught and the visit skipped.
FetchSrcFailsSkipsVisit ==
    /\ pc = "load" /\ vIdx <= Len(visitDataIds)
    /\ vIdx' = vIdx + 1
    /\ log' = log \o Step("calexp_md", visitDataIds[vIdx])
                  \o Step("src raises", visitDataIds[vIdx])
    /\ UNCHANGED <<pc, visitDataIds, params, srcVis, mmatch, matchCat,
                   allMatches, goodMatches, safeMatches, struct, report>>
    /\ UNCHANGED ppdbVars
    /\ UNCHANGED loaderVars

\* butler.get('src', vId) raises.
FetchSrcFails ==
    /\ pc = "load" /\ vIdx <= Len(visitDataIds)
    /\ pc' = "failed"
    /\ log' = log \o Step("calexp_md", visitDataIds[vIdx])
                  \o Step("src raises", visitDataIds[vIdx])
    /\ UNCHANGED <<visitDataIds, params, vIdx, srcVis, mmatch, matchCat,
                   allMatches, goodMatches, safeMatches, struct, report>>
    /\ UNCHANGED ppdbVars
    /\ UNCHANGED loaderVars

\* One turn of the loop: fetch, calibrate, extend srcVis, add to the matcher.
LoadVisit ==
    /\ pc = "load" /\ vIdx <= Len(visitDataIds)
    /\ \E oldSrc \in SrcCatalogs(visitDataIds[vIdx]) :
          /\ Len(srcVis) + Len(oldSrc) <= MaxDetections
          /\ srcVis' = srcVis \o TmpCat(oldSrc)
          /\ mmatch' = MultiMatchAdd(mmatch, TmpCat(oldSrc))
    /\ vIdx' = vIdx + 1
    /\ log' = log \o Step("calexp_md", visitDataIds[vIdx])
                  \o Step("src", visitDataIds[vIdx])
                  \o Step("add", visitDataIds[vIdx])
    /\ UNCHANGED <<pc, visitDataIds, params, matchCat,
                   allMatches, goodMatches, safeMatches, struct, report>>
    /\ UNCHANGED ppdbVars
    /\ UNCHANGED loaderVars

\* The loop left one identifier early.
FinishBeforeLast ==
    /\ pc = "load" /\ vIdx >= Len(visitDataIds)
    /\ matchCat' = MultiMatchFinish(mmatch)
    /\ allMatches' = GroupViewBuild(MultiMatchFinish(mmatch))
    /\ pc' = "good"
    /\ log' = log \o Step("finish", 0)
    /\ UNCHANGED <<visitDataIds, params, vIdx, srcVis, mmatch,
                   goodMatches, safeMatches, struct, report>>
    /\ UNCHANGED ppdbVars
    /\ UNCHANGED loaderVars

\* After the loop: mmatch.finish() and GroupView.build; loadAndMatchData
\* returns.
Finish ==
    /\ pc = "load" /\ vIdx > Len(visitDataIds)
    /\ matchCat' = MultiMatchFinish(mmatch)
    /\ allMatches' = GroupViewBuild(MultiMatchFinish(mmatch))
    /\ pc' = "good"
    /\ log' = log \o Step("finish", 0)
    /\ UNCHANGED <<visitDataIds, params, vIdx, srcVis, mmatch,
                   goodMatches, safeMatches, struct, report>>
    /\ UNCHANGED ppdbVars
    /\ UNCHANGED loaderVars

\* analyzeData: the good-quality pass.
GoodPass ==
    /\ pc = "good"
    /\ goodMatches' = GoodMatches(allMatches)
    /\ pc' = "safe"
    /\ log' = log \o Step("goodFilter", 0)
    /\ UNCHANGED <<visitDataIds, params, vIdx, srcVis, mmatch, matchCat,
                   allMatches, safeMatches, struct, report>>
    /\ UNCHANGED ppdbVars
    /\ UNCHANGED loaderVars

\* analyzeData: the safe pass.
SafePass ==
    /\ pc = "safe"
    /\ safeMatches' = SafeMatches(goodMatches, params.good_mag_limit)
    /\ pc' = "aggregate"
    /\ log' = log \o Step("safeFilter", 0)
    /\ UNCHANGED <<visitDataIds, params, vIdx, srcVis, mmatch, matchCat,
                   allMatches, goodMatches, struct, report>>
    /\ UNCHANGED ppdbVars
    /\ UNCHANGED loaderVars

\* analyzeData: the aggregates and the return.
Summarize ==
    /\ pc = "aggregate"
    /\ struct' = StructOf(goodMatches, safeMatches)
    /\ pc' = "checkAstrometry"
    /\ log' = log \o Step("aggregate", 0)
    /\ UNCHANGED <<visitDataIds, params, vIdx, srcVis, mmatch, matchCat,
                   allMatches, goodMatches, safeMatches, report>>
    /\ UNCHANGED ppdbVars
    /\ UNCHANGED loaderVars

Verdict(ok) == IF ok THEN "success" ELSE "failure"

\* checkAstrometry handed the photometric reference.
RunCheckAstrometryPhotoRef ==
    checkAstrometry(struct.mag, ArrTimes(1000, struct.magrms), struct.dist,
                    struct.match, params.good_mag_limit,
                    params.medianPhotoscatterRef, params.matchRef)

\* run's call of checkAstrometry.
RunCheckAstrometry ==
    checkAstrometry(struct.mag, ArrTimes(1000, struct.magrms), struct.dist,
                    struct.match, params.good_mag_limit,
                    params.medianAstromscatterRef, params.matchRef)

\* run's call of checkPhotometry.
RunCheckPhotometry ==
    checkPhotometry(struct.mag, ArrTimes(1000, struct.magrms), struct.dist,
                    struct.match, params.good_mag_limit,
                    params.medianPhotoscatterRef, params.matchRef)

CheckAstrometry ==
    /\ pc = "checkAstrometry"
    /\ report' = [report EXCEPT !.astrometry = Verdict(RunCheckAstrometry)]
    /\ pc' = "checkPhotometry"
    /\ log' = log \o Step("checkAstrometry", 0)
    /\ UNCHANGED <<visitDataIds, params, vIdx, srcVis, mmatch, matchCat,
                   allMatches, goodMatches, safeMatches, struct>>
    /\ UNCHANGED ppdbVars
    /\ UNCHANGED loaderVars

\* The check left out when nothing matched.
CheckPhotometrySkipsEmpty ==
    /\ pc = "checkPhotometry"
    /\ report' = IF struct.match = 0 THEN report
                 ELSE [report EXCEPT !.photometry = Verdict(RunCheckPhotometry)]
    /\ pc' = "report"
    /\ log' = log \o Step("checkPhotometry", 0)
    /\ UNCHANGED <<visitDataIds, params, vIdx, srcVis, mmatch, matchCat,
                   allMatches, goodMatches, safeMatches, struct>>
    /\ UNCHANGED ppdbVars
    /\ UNCHANGED loaderVars

CheckPhotometry ==
    /\ pc = "checkPhotometry"
    /\ report' = [report EXCEPT !.photometry = Verdict(RunCheckPhotometry)]
    /\ pc' = "report"
    /\ log' = log \o Step("checkPhotometry", 0)
    /\ UNCHANGED <<visitDataIds, params, vIdx, srcVis, mmatch, matchCat,
                   allMatches, goodMatches, safeMatches, struct>>
    /\ UNCHANGED ppdbVars
    /\ UNCHANGED loaderVars

\* The plots and prints that end run.
ReportSteps ==
    Step("plotAstrometry", 0) \o Step("plotPhotometry", 0)
    \o Step("printPA1", 0) \o Step("plotPA1", 0) \o Step("printPA2", 0)
    \o Step("calcAM1", 0) \o Step("printAM1", 0) \o Step("plotAM1", 0)
    \o Step("calcAM2", 0) \o Step("printAM2", 0) \o Step("plotAM2", 0)

Report ==
    /\ pc = "report"
    /\ pc' = "done"
    /\ log' = log \o ReportSteps
    /\ UNCHANGED <<visitDataIds, params, vIdx, srcVis, mmatch, matchCat,
                   allMatches, goodMatches, safeMatches, struct, report>>
    /\ UNCHANGED ppdbVars
    /\ UNCHANGED loaderVars

\* validate.run is not in use (the model is of PpdbMetricTask).
RunIdle ==
    /\ pc = "idle"
    /\ visitDataIds = << >>
    /\ params = CHOOSE q \in ParamSets : q.matchRef = 0
    /\ vIdx = 1
    /\ srcVis = << >>
    /\ mmatch = NewMultiMatch
    /\ matchCat = << >>
    /\ allMatches = << >>
    /\ goodMatches = << >>
    /\ safeMatches = << >>
    /\ struct = NoStruct
    /\ report = NoReport
    /\ log = << >>

\* The datasets as handed over: as they are, or in a one-element list.
DbInfos == Configs \cup {[kind |-> "list", items |-> <<c>>] : c \in Configs}

\* A call of PpdbMetricTask.run(dbInfo), or of adaptArgsAndRun directly with
\* a data ID of the caller's.
InitPpdb ==
    /\ RunIdle
    /\ LoaderIdle
    /\ inputDbInfo \in DbInfos
    /\ \/ ppc = "run" /\ dataId = "{}"
       \/ ppc = "adaptArgsAndRun" /\ dataId \in {"{}", "{visit: 10}"}
    /\ db = None
    /\ measurement = None
    /\ result = None
    /\ calls = << >>

\* PpdbMetricTask.run: adaptArgsAndRun with empty data IDs.
RunTask ==
    /\ ppc = "run"
    /\ dataId' = "{}"
    /\ ppc' = "adaptArgsAndRun"
    /\ UNCHANGED <<inputDbInfo, db, measurement, result, calls>>
    /\ UNCHANGED runVars
    /\ UNCHANGED loaderVars

\* adaptArgsAndRun up to the loader's return.
LoadDb ==
    /\ ppc = "adaptArgsAndRun"
    /\ db' = DbLoaderRun(FirstOrSelf(inputDbInfo)).ppdb
    /\ calls' = Append(calls, [call |-> "dbLoader.run",
                               args |-> <<FirstOrSelf(inputDbInfo)>>,
                               ret |-> DbLoaderRun(FirstOrSelf(inputDbInfo)).ppdb])
    /\ ppc' = "loaded"
    /\ UNCHANGED <<inputDbInfo, dataId, measurement, result>>
    /\ UNCHANGED runVars
    /\ UNCHANGED loaderVars

\* db is not None: makeMeasurement(db, dataId) returns.
MakeMeasurement ==
    /\ ppc = "loaded" /\ db # None
    /\ \E m \in Measurements :
          /\ measurement' = m
          /\ calls' = Append(calls, [call |-> "makeMeasurement",
                                     args |-> <<db, dataId>>, ret |-> m])
    /\ ppc' = "measured"
    /\ UNCHANGED <<inputDbInfo, dataId, db, result>>
    /\ UNCHANGED runVars
    /\ UNCHANGED loaderVars

\* db is not None: makeMeasurement raises MetricComputationError.
MakeMeasurementRaises ==
    /\ ppc = "loaded" /\ db # None
    /\ calls' = Append(calls, [call |-> "makeMeasurement raises",
                               args |-> <<db, dataId>>, ret |-> None])
    /\ ppc' = "raised"
    /\ UNCHANGED <<inputDbInfo, dataId, db, measurement, result>>
    /\ UNCHANGED runVars
    /\ UNCHANGED loaderVars

\* makeMeasurement called though there is no database.
NoMeasurementCallsAnyway ==
    /\ ppc = "loaded" /\ db = None
    /\ measurement' = None
    /\ calls' = Append(calls, [call |-> "makeMeasurement",
                               args |-> <<db, dataId>>, ret |-> None])
    /\ ppc' = "measured"
    /\ UNCHANGED <<inputDbInfo, dataId, db, result>>
    /\ UNCHANGED runVars
    /\ UNCHANGED loaderVars

\* db is None: measurement = None.
NoMeasurement ==
    /\ ppc = "loaded" /\ db = None
    /\ measurement' = None
    /\ ppc' = "measured"
    /\ UNCHANGED <<inputDbInfo, dataId, db, result, calls>>
    /\ UNCHANGED runVars
    /\ UNCHANGED loaderVars

\* The end of adaptArgsAndRun: addStandardMetadata on a measurement that is
\* not None, and the Struct returned.
ReturnMeasurement ==
    /\ ppc = "measured"
    /\ calls' = IF measurement # None
                THEN Append(calls, [call |-> "addStandardMetadata",
                                    args |-> <<measurement, dataId>>, ret |-> None])
                ELSE calls
    /\ result' = [measurement |-> measurement]
    /\ ppc' = "returned"
    /\ UNCHANGED <<inputDbInfo, dataId, db, measurement>>
    /\ UNCHANGED runVars
    /\ UNCHANGED loaderVars

NextPpdb ==
    \/ RunTask
    \/ LoadDb
    \/ MakeMeasurement
    \/ MakeMeasurementRaises
    \/ NoMeasurement
    \/ ReturnMeasurement

SpecPpdb == InitPpdb /\ [][NextPpdb]_vars

\* ------------------------------------ ConfigPpdbLoader._getPpdb, step by step

\* A call of _getPpdb on a config.
InitLoader ==
    /\ RunIdle
    /\ PpdbIdle
    /\ lpc = "running"
    /\ root \in Configs
    /\ stack = << >>
    /\ pending = Call("_getPpdb", root)
    /\ ret = None
    /\ visited = << >>

\* All of the stack but its innermost loop.
Pop(stk) == SubSeq(stk, 1, Len(stk) - 1)

\* The innermost loop moved on by one element.
Advance(stk) ==
    [stk EXCEPT ![Len(stk)] = Loop(stk[Len(stk)].over, Tail(stk[Len(stk)].rest))]

\* A return of value to the loops of stk: the outermost call is done; a
\* caller that gets None goes on with its loop; a caller that gets a result
\* returns it in turn.
Return(value, stk) ==
    /\ ret' = value
    /\ stack' = stk
    /\ pending' = NoCall
    /\ lpc' = IF stk = << >> THEN "done"
              ELSE IF value = None THEN "running" ELSE "returning"

\* _getPpdb(config) up to its loop.
EnterGetPpdb ==
    /\ lpc = "running" /\ pending.fn = "_getPpdb"
    /\ IF pending.arg = None THEN Return(None, stack)
       ELSE IF pending.arg.kind = "PpdbConfig"
            THEN Return(Ppdb(pending.arg), stack)
            ELSE /\ stack' = Append(stack, Loop("fields", pending.arg.fields))
                 /\ pending' = NoCall
                 /\ UNCHANGED <<lpc, ret>>
    /\ UNCHANGED <<root, visited>>
    /\ UNCHANGED <<runVars, ppdbVars>>

\* _getPpdbFromConfigurableField(configurable): apply() of a PpdbConfig's
\* configurable, _getPpdb of the value of any other.
EnterConfigurableField ==
    /\ lpc = "running" /\ pending.fn = "_getPpdbFromConfigurableField"
    /\ IF pending.arg = None THEN Return(None, stack)
       ELSE IF pending.arg.isPpdb
            THEN Return(Ppdb(pending.arg.value), stack)
            ELSE /\ pending' = Call("_getPpdb", pending.arg.value)
                 /\ UNCHANGED <<lpc, stack, ret>>
    /\ UNCHANGED <<root, visited>>
    /\ UNCHANGED <<runVars, ppdbVars>>

\* _getPpdbFromConfigIterable(configDict) up to its loop.
EnterConfigIterable ==
    /\ lpc = "running" /\ pending.fn = "_getPpdbFromConfigIterable"
    /\ IF pending.arg = << >> THEN Return(None, stack)
       ELSE /\ stack' = Append(stack, Loop("configs", pending.arg))
            /\ pending' = NoCall
            /\ UNCHANGED <<lpc, ret>>
    /\ UNCHANGED <<root, visited>>
    /\ UNCHANGED <<runVars, ppdbVars>>

\* The call the loop of _getPpdb makes for a field, none for a field of no
\* class it tests.
CallFor(field) ==
    CASE field.kind = "ConfigurableInstance" ->
            Call("_getPpdbFromConfigurableField", field)
      [] field.kind = "ConfigChoice" ->
            IF field.multi THEN Call("_getPpdbFromConfigIterable", field.active)
            ELSE Call("_getPpdb", field.active)
      [] field.kind = "ConfigDict" ->
            Call("_getPpdbFromConfigIterable", field.values)
      [] field.kind \in {"Config", "PpdbConfig"} -> Call("_getPpdb", field)
      [] OTHER -> NoCall

\* One turn of "for field in config.values()".
NextField ==
    /\ lpc = "running" /\ pending = NoCall /\ stack # << >>
    /\ stack[Len(stack)].over = "fields"
    /\ stack[Len(stack)].rest # << >>
    /\ visited' = Append(visited, Head(stack[Len(stack)].rest))
    /\ pending' = CallFor(Head(stack[Len(stack)].rest))
    /\ stack' = Advance(stack)
    /\ UNCHANGED <<lpc, root, ret>>
    /\ UNCHANGED <<runVars, ppdbVars>>

\* One turn of "for config in configDict".
NextConfig ==
    /\ lpc = "running" /\ pending = NoCall /\ stack # << >>
    /\ stack[Len(stack)].over = "configs"
    /\ stack[Len(stack)].rest # << >>
    /\ pending' = Call("_getPpdb", Head(stack[Len(stack)].rest))
    /\ stack' = Advance(stack)
    /\ UNCHANGED <<lpc, root, ret, visited>>
    /\ UNCHANGED <<runVars, ppdbVars>>

\* A loop is through: return None.
LoopEnds ==
    /\ lpc = "running" /\ pending = NoCall /\ stack # << >>
    /\ stack[Len(stack)].rest = << >>
    /\ Return(None, Pop(stack))
    /\ UNCHANGED <<root, visited>>
    /\ UNCHANGED <<runVars, ppdbVars>>

\* A result is taken for None: the loop goes on.
ResultIgnored ==
    /\ lpc = "returning"
    /\ lpc' = "running"
    /\ UNCHANGED <<root, stack, pending, ret, visited>>
    /\ UNCHANGED <<runVars, ppdbVars>>

\* "if result: return result", in the loop that made the call.
ReturnResult ==
    /\ lpc = "returning"
    /\ Return(ret, Pop(stack))
    /\ UNCHANGED <<root, visited>>
    /\ UNCHANGED <<runVars, ppdbVars>>

NextLoader ==
    \/ EnterGetPpdb
    \/ EnterConfigurableField
    \/ EnterConfigIterable
    \/ NextField
    \/ NextConfig
    \/ LoopEnds
    \/ ReturnResult

\* A call that has begun runs on: nothing else is scheduled.
SpecLoader == InitLoader /\ [][NextLoader]_vars /\ WF_vars(NextLoader)

Next ==
    \/ Setup
    \/ FetchCalibFails
    \/ FetchSrcFails
    \/ LoadVisit
    \/ Finish
    \/ GoodPass
    \/ SafePass
    \/ Summarize
    \/ CheckAstrometry
    \/ CheckPhotometry
    \/ Report

Spec == Init /\ [][Next]_vars

\* ------------------------------------------------------------ the claims

AfterFinish == pc \in {"good", "safe", "aggregate", "checkAstrometry",
                       "checkPhotometry", "report", "done"}

AfterGoodPass == AfterFinish /\ pc # "good"

AfterSafePass == AfterGoodPass /\ pc # "safe"

AfterSummarize == AfterSafePass /\ pc # "aggregate"

Disqualified(rec) ==
    \/ "saturated" \in rec.flags
    \/ "cr" \in rec.flags
    \/ "bad" \in rec.flags
    \/ "edge" \in rec.flags

\* C1: once the good-quality pass has run, a group of the matched catalogue
\* is among the good groups if and only if it has at least 2 members, no
\* member carries the flag saturated, cr, bad or edge, and every member's PSF
\* magnitude is finite; the good groups are groups of the matched catalogue.
C1_GoodFilter ==
    AfterGoodPass =>
        /\ DOMAIN goodMatches \subseteq DOMAIN allMatches
        /\ \A g \in DOMAIN allMatches :
              g \in DOMAIN goodMatches <=>
                 /\ Len(allMatches[g]) >= 2
                 /\ \A j \in 1..Len(allMatches[g]) : ~Disqualified(allMatches[g][j])
                 /\ \A j \in 1..Len(allMatches[g]) : allMatches[g][j].psfMag.fin

\* A group of two clean detections is kept while a group with one flagged and
\* one clean member is excluded.
C1_Witness ==
    /\ pc = "safe"
    /\ \E g \in DOMAIN goodMatches : Len(allMatches[g]) = 2
    /\ \E g \in DOMAIN allMatches \ DOMAIN goodMatches :
          /\ Len(allMatches[g]) = 2
          /\ Disqualified(allMatches[g][1])
          /\ allMatches[g][2].flags = {} /\ allMatches[g][2].psfMag.fin

\* The sum of a good group's magnitudes (all finite) is at most limit times
\* its size, that is, its mean is at most the limit.
MeanAtMost(cat, limit) ==
    SumNum(Column(cat, "psfMag")) <= limit * Len(cat)

\* Every member's extendedness is a number below 1.0.
AllBelowOne(cat) ==
    \A j \in 1..Len(cat) :
        cat[j].extendedness.fin
        /\ cat[j].extendedness.num < 1000 * cat[j].extendedness.den

\* C2: once the safe pass has run, the safe groups are exactly the good groups
\* whose mean magnitude is at most good_mag_limit and whose largest
\* extendedness is below 1.0, each with the members it has as a good group.
C2_SafeSet ==
    AfterSafePass =>
        /\ DOMAIN safeMatches =
              {g \in DOMAIN goodMatches :
                  /\ MeanAtMost(goodMatches[g], params.good_mag_limit)
                  /\ AllBelowOne(goodMatches[g])}
        /\ \A g \in DOMAIN safeMatches : safeMatches[g] = goodMatches[g]

\* A safe group whose mean equals the limit, and a good group left out for a
\* member of extendedness exactly 1.0.
C2_Witness ==
    /\ pc = "aggregate"
    /\ \E g \in DOMAIN safeMatches :
          SumNum(Column(safeMatches[g], "psfMag"))
             = params.good_mag_limit * Len(safeMatches[g])
    /\ \E g \in DOMAIN goodMatches \ DOMAIN safeMatches :
          /\ MeanAtMost(goodMatches[g], params.good_mag_limit)
          /\ \E j \in 1..Len(goodMatches[g]) :
                goodMatches[g][j].extendedness = F(1000)

\* The limits a caller may pass that the model draws from.
Limits == {q.good_mag_limit : q \in ParamSets}

\* view.where(safeFilter) for a limit.
WhereSafe(view, limit) ==
    Where(view, [g \in DOMAIN view |-> safeFilter(view[g], limit)])

\* C3: applying safeFilter to the groups the safe pass selected selects them
\* all again, with the same members; and for every limit and each set of
\* groups at hand, filtering twice is filtering once.
C3_SafeIdempotent ==
    /\ AfterSafePass =>
          WhereSafe(safeMatches, params.good_mag_limit) = safeMatches
    /\ \A limit \in Limits :
          /\ WhereSafe(WhereSafe(allMatches, limit), limit)
                = WhereSafe(allMatches, limit)
          /\ WhereSafe(WhereSafe(goodMatches, limit), limit)
                = WhereSafe(goodMatches, limit)

\* The safe pass selected one group and left another, so that the second
\* application has both something to keep and had something to drop.
C3_Witness ==
    /\ pc = "aggregate"
    /\ safeMatches # << >>
    /\ DOMAIN goodMatches \ DOMAIN safeMatches # {}

\* C4: the astrometric check reports failure if and only if the median of
\* dist over the stars with mean magnitude at or below good_mag_limit exceeds
\* medianAstromscatterRef or match is below matchRef; the photometric check
\* likewise with 1000 * magrms and medianPhotoscatterRef.  Of the checks as
\* functions (evaluated in the initial states): with match = 100
\* and matchRef = 500 a check fails whatever the scatter; with every star
\* under the limit and medianRef = 25, a median of 30 fails and a median of 20
\* with enough matches succeeds.
C4_ThresholdChecks ==
    /\ pc \in {"checkPhotometry", "report", "done"} =>
          /\ report.astrometry \in {"success", "failure"}
          /\ report.astrometry = "failure" <=>
                \/ FGt(NpMedian(BrightOf(struct.mag, struct.dist,
                                         F(params.good_mag_limit))),
                       F(params.medianAstromscatterRef))
                \/ struct.match < params.matchRef
    /\ pc \in {"report", "done"} =>
          /\ report.photometry \in {"success", "failure"}
          /\ report.photometry = "failure" <=>
                \/ FGt(NpMedian(BrightOf(struct.mag, ArrTimes(1000, struct.magrms),
                                         F(params.good_mag_limit))),
                       F(params.medianPhotoscatterRef))
                \/ struct.match < params.matchRef
    /\ pc = "start" =>
       LET mag == <<F(18000), F(18200), F(18100)>>
           s30 == <<F(31000), F(30000), F(12000)>>
           s20 == <<F(20000), F(45000), F(3000)>>
       IN  /\ \A s \in {s20, s30} :
                 /\ ~checkAstrometry(mag, s30, s, 100, 19500, 25000, 500)
                 /\ ~checkPhotometry(mag, s, s30, 100, 19500, 25000, 500)
           /\ ~checkAstrometry(mag, s20, s30, 600, 19500, 25000, 500)
           /\ ~checkPhotometry(mag, s30, s20, 600, 19500, 25000, 500)
           /\ checkAstrometry(mag, s30, s20, 600, 19500, 25000, 500)
           /\ checkPhotometry(mag, s20, s30, 600, 19500, 25000, 500)

\* Enough matches, and the two checks disagree: the astrometric median is
\* within its reference and the photometric median is over its own.
C4_Witness ==
    /\ pc = "done"
    /\ struct.match > 0 /\ struct.match >= params.matchRef
    /\ report.astrometry = "success"
    /\ report.photometry = "failure"

\* The places (group, index) of the matched catalogue that hold a detection.
PlacesOf(det) ==
    {q \in (DOMAIN allMatches) \X (1..Len(srcVis)) :
        /\ q[2] <= Len(allMatches[q[1]])
        /\ allMatches[q[1]][q[2]] = det}

\* C5: from finalisation on, every loaded detection is at exactly one place of
\* the matched catalogue, unchanged, in the group whose identifier the matcher
\* gave it at finalisation; the good groups and the safe groups are groups of
\* the matched catalogue with all their members.
C5_Membership ==
    AfterFinish =>
        /\ Len(matchCat) = Len(srcVis)
        /\ \A k \in 1..Len(srcVis) :
              /\ Cardinality(PlacesOf(srcVis[k])) = 1
              /\ \E m \in 1..Len(matchCat) :
                    /\ matchCat[m].rec = srcVis[k]
                    /\ \A q \in PlacesOf(srcVis[k]) : q[1] = matchCat[m].object
        /\ \A g \in DOMAIN allMatches : \A j \in 1..Len(allMatches[g]) :
              \E k \in 1..Len(srcVis) : srcVis[k] = allMatches[g][j]
        /\ AfterGoodPass =>
              \A g \in DOMAIN goodMatches :
                  g \in DOMAIN allMatches /\ goodMatches[g] = allMatches[g]
        /\ AfterSafePass =>
              \A g \in DOMAIN safeMatches :
                  g \in DOMAIN allMatches /\ safeMatches[g] = allMatches[g]

\* Both passes have run, each has left a group out or kept one, and a group
\* with a flagged member sits in the matched catalogue.
C5_Witness ==
    /\ pc = "done"
    /\ Len(srcVis) >= 3
    /\ safeMatches # << >>
    /\ \E g \in DOMAIN allMatches \ DOMAIN goodMatches :
          /\ Len(allMatches[g]) = 2
          /\ \E j \in 1..2 : Disqualified(allMatches[g][j])

Raises == {"calexp_md raises", "src raises"}

LaterSteps == {"finish", "goodFilter", "safeFilter", "aggregate",
               "checkAstrometry", "checkPhotometry", "plotAstrometry",
               "plotPhotometry", "printPA1", "plotPA1", "printPA2", "calcAM1",
               "printAM1", "plotAM1", "calcAM2", "printAM2", "plotAM2"}

\* C6: a fetch that raises is the last step of the run: the run has failed at
\* that identifier, the identifiers added are exactly those before it, the
\* failing fetch was made once, the matcher was not finalised, there is no
\* matched catalogue, and no filter, aggregate, check, print or plot ran.
C6_FetchFailureAborts ==
    \A k \in 1..Len(log) :
        log[k].step \in Raises =>
            /\ k = Len(log)
            /\ pc = "failed"
            /\ vIdx \in 1..Len(visitDataIds)
            /\ log[k].id = visitDataIds[vIdx]
            /\ \A i \in 1..Len(visitDataIds) :
                  (\E m \in 1..Len(log) :
                       log[m] = [step |-> "add", id |-> visitDataIds[i]])
                  <=> i < vIdx
            /\ Cardinality({m \in 1..Len(log) :
                               /\ log[m].id = log[k].id
                               /\ log[m].step \in {"calexp_md", "calexp_md raises"}}) = 1
            /\ Cardinality({m \in 1..Len(log) :
                               /\ log[m].id = log[k].id
                               /\ log[m].step \in {"src", "src raises"}}) <= 1
            /\ \A m \in 1..Len(log) : log[m].step \notin LaterSteps
            /\ matchCat = << >> /\ allMatches = << >>
            /\ goodMatches = << >> /\ safeMatches = << >>
            /\ struct = NoStruct /\ report = NoReport

\* The detection catalogue of the second of two identifiers could not be
\* fetched, after the first was added.
C6_Witness ==
    /\ pc = "failed"
    /\ Len(visitDataIds) = 2 /\ vIdx = 2
    /\ log[Len(log)] = [step |-> "src raises", id |-> visitDataIds[2]]
    /\ srcVis # << >>

RECURSIVE LoadSteps(_)
LoadSteps(ids) ==
    IF ids = << >> THEN << >>
    ELSE <<[step |-> "calexp_md", id |-> Head(ids)],
           [step |-> "src", id |-> Head(ids)],
           [step |-> "add", id |-> Head(ids)]>> \o LoadSteps(Tail(ids))

NamedSteps(names) == [j \in 1..Len(names) |-> [step |-> names[j], id |-> 0]]

\* The steps of a run that does not fail, in order.
ExpectedLog ==
    NamedSteps(<<"MultiMatch">>) \o LoadSteps(visitDataIds)
    \o NamedSteps(<<"finish", "goodFilter", "safeFilter", "aggregate",
                    "checkAstrometry", "checkPhotometry", "plotAstrometry",
                    "plotPhotometry", "printPA1", "plotPA1", "printPA2",
                    "calcAM1", "printAM1", "plotAM1", "calcAM2", "printAM2",
                    "plotAM2">>)

IsPrefix(a, b) == Len(a) <= Len(b) /\ a = SubSeq(b, 1, Len(a))

\* C7: while a run has not failed, its steps so far are the beginning of one
\* fixed list: each identifier in list order fetched, calibrated and added
\* once, then the finalisation, the filters and the aggregates, the
\* astrometric and the photometric check, the reports; a finished run has
\* taken exactly that list.
C7_FixedOrder ==
    /\ pc # "failed" => IsPrefix(log, ExpectedLog)
    /\ pc = "done" => log = ExpectedLog
    /\ pc \in {"load", "start"} => \A m \in 1..Len(log) : log[m].step # "finish"

\* A run over two identifiers has finished.
C7_Witness ==
    /\ pc = "done"
    /\ Len(visitDataIds) = 2
    /\ Len(srcVis) >= 2

EmptyArrays ==
    /\ struct.mag = << >> /\ struct.magrms = << >>
    /\ struct.magerr = << >> /\ struct.dist = << >>

WithExtendedness(v) ==
    [g \in DOMAIN allMatches |->
        [j \in 1..Len(allMatches[g]) |->
            [allMatches[g][j] EXCEPT !.extendedness = v]]]

\* analyzeData's info_struct for a matched catalogue and a limit.
StructFor(all, limit) ==
    StructOf(GoodMatches(all), SafeMatches(GoodMatches(all), limit))

\* C10: mag, magrms, magerr and dist each hold one entry per good group, match
\* is the number of good groups, the entries of mag are the means of the good
\* groups in identifier order, and the struct is the same for every
\* good_mag_limit and every extendedness.
C10_StatsOverGood ==
    AfterSummarize =>
        LET ids == AscendingIds(DOMAIN goodMatches)
            n == Cardinality(DOMAIN goodMatches)
        IN  /\ Len(struct.mag) = n /\ Len(struct.magrms) = n
            /\ Len(struct.magerr) = n /\ Len(struct.dist) = n
            /\ struct.match = n
            /\ \A j \in 1..n :
                  /\ struct.mag[j].fin
                  /\ struct.mag[j].num * Len(goodMatches[ids[j]])
                        = SumNum(Column(goodMatches[ids[j]], "psfMag"))
                          * struct.mag[j].den
            /\ \A limit \in Limits : StructFor(allMatches, limit) = struct
            /\ \A v \in {F(0), F(500), F(1000), NaN} :
                  StructFor(WithExtendedness(v), params.good_mag_limit) = struct

\* There are good groups, and the safe pass dropped one of them.
C10_Witness ==
    /\ pc = "done"
    /\ safeMatches # << >>
    /\ DOMAIN goodMatches \ DOMAIN safeMatches # {}
    /\ struct.match = 2


\* ------------------------------------------------------------------- C9

\* The calls made so far under the given name.
CallsOf(name) == {i \in DOMAIN calls : calls[i].call = name}

\* makeMeasurement has been entered, whether it returned or raised.
MakeCalls == CallsOf("makeMeasurement") \cup CallsOf("makeMeasurement raises")

\* C9: PpdbMetricTask.adaptArgsAndRun calls the dbLoader exactly once, on the
\* dataset handed over (the element of a one-element list); it calls
\* makeMeasurement exactly once if the handle loaded is not None and never
\* otherwise, with that handle and the data ID; it calls addStandardMetadata
\* exactly once if the measurement is not None and never otherwise; the
\* measurement it returns is what makeMeasurement returned, None when there
\* is no handle.
C9_AdaptArgsAndRun ==
    /\ ppc \in {"run", "adaptArgsAndRun"} => calls = << >>
    /\ ppc \in {"loaded", "measured", "returned", "raised"} =>
          /\ CallsOf("dbLoader.run") = {1}
          /\ calls[1].args = <<FirstOrSelf(inputDbInfo)>>
          /\ db = calls[1].ret
    /\ ppc = "loaded" => MakeCalls = {}
    /\ ppc \in {"measured", "returned", "raised"} =>
          /\ MakeCalls = IF db # None THEN {2} ELSE {}
          /\ db # None => calls[2].args = <<db, dataId>>
    /\ ppc \in {"measured", "returned"} =>
          measurement = IF db # None THEN calls[2].ret ELSE None
    /\ ppc # "returned" => CallsOf("addStandardMetadata") = {}
    /\ ppc = "returned" =>
          /\ result = [measurement |-> measurement]
          /\ CallsOf("addStandardMetadata") =
                IF measurement # None THEN {3} ELSE {}
          /\ measurement # None => calls[3].args = <<measurement, dataId>>
          /\ Len(calls) = IF db = None THEN 1
                          ELSE IF measurement = None THEN 2 ELSE 3

\* A run on a config in a list whose first field holds no PpdbConfig and
\* whose last does: the handle is loaded, measured and annotated.
C9_Witness ==
    /\ ppc = "returned"
    /\ inputDbInfo.kind = "list"
    /\ inputDbInfo.items[1].kind = "Config"
    /\ Len(inputDbInfo.items[1].fields) = MaxFields
    /\ GetPpdbFromField(inputDbInfo.items[1].fields[1]) = None
    /\ db = Ppdb(PpdbConfig(2))
    /\ result.measurement # None
    /\ Len(calls) = 3
    /\ calls[3].call = "addStandardMetadata"


\* ------------------------------------------------------------------ C11

RECURSIVE PpdbConfigsIn(_)
RECURSIVE PpdbConfigsInAll(_)
RECURSIVE PpdbConfigsInFields(_)

\* The PpdbConfigs reachable from a field value, in depth-first order.
PpdbConfigsUnder(field) ==
    CASE field.kind = "ConfigurableInstance" -> PpdbConfigsIn(field.value)
      [] field.kind = "ConfigChoice" ->
            IF field.multi THEN PpdbConfigsInAll(field.active)
            ELSE PpdbConfigsIn(field.active)
      [] field.kind = "ConfigDict" -> PpdbConfigsInAll(field.values)
      [] field.kind \in {"Config", "PpdbConfig"} -> PpdbConfigsIn(field)
      [] OTHER -> << >>

\* The PpdbConfigs reachable from a config, in depth-first order.
PpdbConfigsIn(config) ==
    IF config = None THEN << >>
    ELSE IF config.kind = "PpdbConfig" THEN <<config>>
         ELSE PpdbConfigsInFields(config.fields)

PpdbConfigsInAll(configs) ==
    IF configs = << >> THEN << >>
    ELSE PpdbConfigsIn(Head(configs)) \o PpdbConfigsInAll(Tail(configs))

PpdbConfigsInFields(fields) ==
    IF fields = << >> THEN << >>
    ELSE PpdbConfigsUnder(Head(fields)) \o PpdbConfigsInFields(Tail(fields))

RECURSIVE FieldsIn(_, _)
RECURSIVE FieldsInAll(_, _)
RECURSIVE FieldsInFields(_, _)

\* The fields below a field value in depth-first order, each with the number
\* of PpdbConfigs met before it (n before the field value itself).
FieldsUnder(field, n) ==
    CASE field.kind = "ConfigurableInstance" -> FieldsIn(field.value, n)
      [] field.kind = "ConfigChoice" ->
            IF field.multi THEN FieldsInAll(field.active, n)
            ELSE FieldsIn(field.active, n)
      [] field.kind = "ConfigDict" -> FieldsInAll(field.values, n)
      [] field.kind = "Config" -> FieldsIn(field, n)
      [] OTHER -> << >>

FieldsIn(config, n) ==
    IF config = None \/ config.kind = "PpdbConfig" THEN << >>
    ELSE FieldsInFields(config.fields, n)

FieldsInAll(configs, n) ==
    IF configs = << >> THEN << >>
    ELSE FieldsIn(Head(configs), n)
         \o FieldsInAll(Tail(configs), n + Len(PpdbConfigsIn(Head(configs))))

FieldsInFields(fields, n) ==
    IF fields = << >> THEN << >>
    ELSE <<[field |-> Head(fields), before |-> n]>>
         \o FieldsUnder(Head(fields), n)
         \o FieldsInFields(Tail(fields), n + Len(PpdbConfigsUnder(Head(fields))))

\* The fields of the whole tree in depth-first order.
AllFields(config) ==
    LET fs == FieldsIn(config, 0) IN [i \in DOMAIN fs |-> fs[i].field]

IsBefore(entry) == entry.before = 0

\* The fields met before the first PpdbConfig is: the field that holds it is
\* the last of them.
FieldsToFirst(config) ==
    LET fs == SelectSeq(FieldsIn(config, 0), IsBefore)
    IN  [i \in DOMAIN fs |-> fs[i].field]

\* While _getPpdb runs it has visited fields in depth-first order and none
\* after the first PpdbConfig; what it returns is the Ppdb of the first
\* PpdbConfig, None if there is none.
GetPpdbSound ==
    /\ lpc \in {"running", "returning", "done"} =>
          IsPrefix(visited, FieldsToFirst(root))
    /\ lpc = "returning" => ret = Ppdb(Head(PpdbConfigsIn(root)))
    /\ lpc = "done" =>
          /\ visited = FieldsToFirst(root)
          /\ ret = GetPpdb(root)
          /\ ret = None <=> (root = None \/ PpdbConfigsIn(root) = << >>)
          /\ ret # None => ret = Ppdb(Head(PpdbConfigsIn(root)))

\* C11: for every finite config tree _getPpdb terminates; it returns None if
\* and only if the config is None or no PpdbConfig is reachable from it
\* through configurable fields, config-choice fields, config-dict values and
\* nested configs; otherwise it returns the handle built from the first
\* PpdbConfig of a depth-first walk of the fields in their iteration order,
\* and it visits no field after that one.
C11_GetPpdb == []GetPpdbSound /\ <>(lpc = "done")

\* A walk that went into a nested config, found its PpdbConfig behind
\* another field there, and left the next field of the root unvisited.
C11_Witness ==
    /\ lpc = "done"
    /\ root.kind = "Config"
    /\ Len(root.fields) = MaxFields
    /\ root.fields[1] = Config(<<OtherField, PpdbConfig(2)>>)
    /\ root.fields[MaxFields] = PpdbConfig(1)
    /\ ret = Ppdb(PpdbConfig(2))
    /\ visited = <<root.fields[1], OtherField, PpdbConfig(2)>>
    /\ Len(AllFields(root)) > Len(visited)

====
